---- MODULE Spec2Model ----
(***************************************************************************)
(* A model of mapisse's Wikidata harvester (src/src/mapisse/data/wikidata  *)
(* .py): the retrying query executor _execute_sparql, the row normaliser   *)
(* of the two fetch_*_batch functions, and the two-phase pagination and    *)
(* deduplication of fetch_all_artworks.                                    *)
(*                                                                         *)
(* Python strings are sequences of one-character strings, so that the      *)
(* character-level functions (_is_qid, _parse_coordinates) are computed    *)
(* as the code computes them.  An optional value (an absent binding, None) *)
(* is a sequence of length 0 or 1: <<>> is absent/None, <<v>> is present.  *)
(***************************************************************************)
EXTENDS Integers, Sequences, FiniteSets, TLC

(***************************************************************************)
(* Program constants.                                                      *)
(***************************************************************************)
MAX_RETRIES == 5
BATCH_SIZE == 200
RATE_LIMIT_SLEEP == 2
RATE_LIMIT_RETRY_SLEEP == 30
NOTABLE_LIMIT == 2000
sample_offsets_Even == <<0, 10000, 20000, 30000, 40000, 50000>>

sample_offsets == <<0, 5000, 10000, 20000, 30000, 50000>>

(***************************************************************************)
(* Bounds of the model.                                                    *)
(*   MaxBatch   rows in one raw result page (the code allows BATCH_SIZE).  *)
(*   MaxRows    a working set of arbitrary records holds at most MaxRows   *)
(*              records; a working set of copies of one record may grow    *)
(*              as long as the pagination allows.                          *)
(*   FracDigits fractional digits kept of a parsed coordinate.             *)
(*   MaxLabel   characters of a label the normaliser is run on.            *)
(*   MaxTok     characters of a coordinate token the normaliser is run on. *)
(***************************************************************************)
MaxBatch == 1
MaxRows == 2
FracDigits == 1
MaxLabel == 3
MaxTok == 3

(***************************************************************************)
(* Strings and optional values.                                            *)
(***************************************************************************)
None == <<>>
Some(v) == <<v>>
EmptyStr == <<>>
Unknown == <<"U", "n", "k", "n", "o", "w", "n">>
Digits == {"0", "1", "2", "3", "4", "5", "6", "7", "8", "9"}
CoordChars == Digits \cup {"-", "."}
WhiteSpace == {" ", "\t", "\n", "\r"}

(* str.replace(ch, "") *)
RECURSIVE Remove(_, _)
Remove(s, ch) ==
    IF s = <<>> THEN <<>>
    ELSE IF Head(s) = ch THEN Remove(Tail(s), ch)
         ELSE <<Head(s)>> \o Remove(Tail(s), ch)

isdigit_EmptyToo(s) == \A i \in 1..Len(s) : s[i] \in Digits

(* str.isdigit(): every character a digit, and at least one character *)
isdigit(s) == Len(s) > 0 /\ \A i \in 1..Len(s) : s[i] \in Digits

(* wikidata.py:88-92 *)
_is_qid(label) ==
    IF label = EmptyStr THEN TRUE
    ELSE label[1] = "Q" /\ isdigit(Remove(Tail(label), "-"))

(***************************************************************************)
(* _parse_coordinates.  re.match anchors the pattern                       *)
(*   Point\(([-\d.]+)\s+([-\d.]+)\)                                        *)
(* at the start of the string only.  Each group is followed by a character *)
(* outside its class, so the greedy match is the maximal run.              *)
(***************************************************************************)
RECURSIVE RunLen(_, _, _)
RunLen(s, i, class) ==
    IF i > Len(s) \/ s[i] \notin class THEN 0
    ELSE 1 + RunLen(s, i + 1, class)

PointPrefix == <<"P", "o", "i", "n", "t", "(">>

(* the two groups of the match, or <<>> when the pattern does not match *)
PointMatch(s) ==
    LET p  == Len(PointPrefix)
        n1 == RunLen(s, p + 1, CoordChars)
        w  == RunLen(s, p + 1 + n1, WhiteSpace)
        n2 == RunLen(s, p + 1 + n1 + w, CoordChars)
        close == p + 1 + n1 + w + n2
    IN  IF /\ Len(s) >= p
           /\ SubSeq(s, 1, p) = PointPrefix
           /\ n1 >= 1 /\ w >= 1 /\ n2 >= 1
           /\ close <= Len(s) /\ s[close] = ")"
        THEN <<SubSeq(s, p + 1, p + n1), SubSeq(s, p + 1 + n1 + w, close - 1)>>
        ELSE <<>>

DigitVal(c) == CHOOSE n \in 0..9 : <<"0", "1", "2", "3", "4", "5", "6", "7", "8", "9">>[n + 1] = c

RECURSIVE Pow10(_)
Pow10(n) == IF n = 0 THEN 1 ELSE 10 * Pow10(n - 1)

Scale == Pow10(FracDigits)

RECURSIVE DigitsVal(_)
DigitsVal(ds) ==
    IF ds = <<>> THEN 0
    ELSE 10 * DigitsVal(SubSeq(ds, 1, Len(ds) - 1)) + DigitVal(ds[Len(ds)])

(* float(tok) for a token over [-0-9.]: an optional sign, digits with at  *)
(* most one point, at least one digit; anything else raises ValueError.   *)
Unsigned(tok) == IF tok # <<>> /\ tok[1] = "-" THEN Tail(tok) ELSE tok

IsFloat(tok) ==
    LET u == Unsigned(tok)
        noPoint == Remove(u, ".")
    IN  /\ isdigit(noPoint)
        /\ Len(u) - Len(noPoint) <= 1

(* the value of float(tok), in units of 1/Scale (further digits dropped) *)
FloatValue(tok) ==
    LET u == Unsigned(tok)
        ip == RunLen(u, 1, Digits)
        intPart == SubSeq(u, 1, ip)
        fracAll == IF ip < Len(u) THEN SubSeq(u, ip + 2, Len(u)) ELSE <<>>
        frac == [i \in 1..FracDigits |-> IF i <= Len(fracAll) THEN fracAll[i] ELSE "0"]
        mag == DigitsVal(intPart) * Scale + DigitsVal(frac)
    IN  IF tok[1] = "-" THEN 0 - mag ELSE mag

_parse_coordinates_Each(coord_str) ==
    IF coord_str = None \/ coord_str = Some(EmptyStr) THEN <<None, None>>
    ELSE LET match == PointMatch(coord_str[1])
         IN  IF match = <<>> THEN <<None, None>>
             ELSE <<IF IsFloat(match[2]) THEN Some(FloatValue(match[2])) ELSE None,
                    IF IsFloat(match[1]) THEN Some(FloatValue(match[1])) ELSE None>>

(* wikidata.py:71-85; the result is <<lat, lon>>, each None or Some(value) *)
_parse_coordinates(coord_str) ==
    IF coord_str = None \/ coord_str = Some(EmptyStr) THEN <<None, None>>
    ELSE LET match == PointMatch(coord_str[1])
         IN  IF match = <<>> THEN <<None, None>>
             ELSE IF IsFloat(match[1]) /\ IsFloat(match[2])
                  THEN <<Some(FloatValue(match[2])), Some(FloatValue(match[1]))>>
                  ELSE <<None, None>>

(***************************************************************************)
(* Raw result rows: a binding is absent (<<>>) or carries a value.         *)
(***************************************************************************)
RowGet_NoDefault(row, key, default) == IF row[key] = <<>> THEN EmptyStr ELSE row[key][1]

(* row.get(key, {}).get("value", default) *)
RowGet(row, key, default) == IF row[key] = <<>> THEN default ELSE row[key][1]

(* wikidata.py:143-169 (and, identically, 215-240): the normalising loop *)
RECURSIVE Paintings(_)
Paintings(rows) ==
    IF rows = <<>> THEN <<>>
    ELSE LET row == Head(rows)
             painter_label  == RowGet(row, "painterLabel", EmptyStr)
             painting_label == RowGet(row, "paintingLabel", EmptyStr)
             museum_label   == RowGet(row, "museumLabel", EmptyStr)
             country_label  == RowGet(row, "countryLabel", Unknown)
             coords_str     == row.coords
             wiki_url       == RowGet(row, "article", EmptyStr)
             latlon         == _parse_coordinates(coords_str)
         IN  IF _is_qid(painter_label) \/ _is_qid(painting_label) \/ _is_qid(museum_label)
             THEN Paintings(Tail(rows))
             ELSE <<[painter |-> painter_label,
                     painting |-> painting_label,
                     museum |-> museum_label,
                     city |-> Unknown,
                     country |-> country_label,
                     lat |-> latlon[1],
                     lon |-> latlon[2],
                     wikipedia_url |-> wiki_url]>> \o Paintings(Tail(rows))

(***************************************************************************)
(* The rows the remote service may return.  rowB and rowB2 normalise to    *)
(* records with the same (painter, painting, museum) and different other   *)
(* fields; rowQ carries an untranslated Q-ID as painter label.             *)
(***************************************************************************)
Row(painter, painting, museum, country, coords, article) ==
    [painterLabel |-> painter, paintingLabel |-> painting, museumLabel |-> museum,
     countryLabel |-> country, coords |-> coords, article |-> article]

PointParis == <<"P", "o", "i", "n", "t", "(", "2", ".", "3", " ", "4", "8", ".", "8", ")">>
UrlA == <<"w", "/", "a">>
UrlB == <<"w", "/", "b">>

rowA == Row(Some(<<"a">>), Some(<<"x">>), Some(<<"m">>), Some(<<"F", "R">>), Some(PointParis), Some(UrlA))
rowB == Row(Some(<<"b">>), Some(<<"y">>), Some(<<"m">>), Some(<<"F", "R">>), Some(PointParis), Some(UrlB))
rowB2 == Row(Some(<<"b">>), Some(<<"y">>), Some(<<"m">>), None, None, None)
rowQ == Row(Some(<<"Q", "1", "2">>), Some(<<"x">>), Some(<<"m">>), Some(<<"F", "R">>), Some(PointParis), None)

RawRows == {rowA, rowB, rowB2, rowQ}

(* the record of the working sets that grow beyond MaxRows *)
Filler == Paintings(<<rowA>>)[1]

RawBatches(rows) == UNION {[1..n -> rows] : n \in 0..MaxBatch}

(* Paintings, tabulated once over the result pages of the model *)
Normalised == [raw \in RawBatches(RawRows) |-> Paintings(raw)]

(* the result pages the remote service may return given the working set *)
Homogeneous(rows) == \A i \in 1..Len(rows) : rows[i] = Filler

Admissible(raw, rows, homogeneous) ==
    LET recs == Normalised[raw]
    IN  \/ Len(rows) + Len(recs) <= MaxRows
        \/ Homogeneous(recs) /\ homogeneous

(***************************************************************************)
(* HTTP outcomes of one request.                                           *)
(***************************************************************************)
ServerErrorCodes == {500, 502, 503, 504}
OtherErrorCodes == {400, 404}

Schema == <<"painter", "painting", "museum", "city", "country", "lat", "lon", "wikipedia_url">>
NoFrame == [columns |-> <<>>, rows |-> {}]
NoPage == [ok |-> FALSE, slept |-> 0]
NoStop == [why |-> "none", raw |-> 0]
NoSummary == [status |-> "none"]
NoCase == [kind |-> "none"]

(***************************************************************************)
(* State.                                                                  *)
(*   pc        position in fetch_all_artworks: "phase1", "phase2",         *)
(*             "frame", "done"; "direct" when _execute_sparql is called    *)
(*             on its own                                                  *)
(*   xpc       position in _execute_sparql: "idle" (not called), "loop",   *)
(*             "returned", "raised"                                        *)
(*   query     the OFFSET/LIMIT window of the query text being executed    *)
(*   retries, results, exc                 locals/outcome of the executor  *)
(*   offset, batch_num, all_rows           locals of fetch_all_artworks    *)
(*             (batch is dead between iterations and stays a LET)          *)
(*   sample                                index into sample_offsets       *)
(*   df        the returned frame                                          *)
(*   summary   what main() of scripts/refresh_data.py printed about df     *)
(* The environment:                                                        *)
(*   corpus    the rows the remote service holds                           *)
(*   given     how the input of a normaliser run was built                 *)
(* Observers (read by no action's guard):                                  *)
(*   count     the number of HTTP requests the strategy in progress has    *)
(*             issued so far, when counted (None when not)                 *)
(*   trace     whether outcomes/sleeps are recorded                        *)
(*   outcomes  the responses of the current executor call, in order        *)
(*   sleeps    the durations the current executor call slept, in order     *)
(*   lastPage  the last page a strategy finished: whether it succeeded     *)
(*             and the sleep it ended with                                 *)
(*   stop1     why the notable-works loop ended, and the number of raw     *)
(*             rows of its last page                                       *)
(***************************************************************************)
VARIABLES pc, xpc, query, retries, results, exc,
          offset, batch_num, all_rows, sample, df, summary,
          corpus, given, trace, outcomes, sleeps, lastPage, stop1, count

harvestVars == <<pc, query, offset, batch_num, all_rows, sample, df, summary,
                 corpus, given, lastPage, stop1>>
vars == <<pc, xpc, query, retries, results, exc,
          offset, batch_num, all_rows, sample, df, summary,
          corpus, given, trace, outcomes, sleeps, lastPage, stop1, count>>

NoQuery == [strategy |-> "none", offset |-> 0, limit |-> 0]
NoExc == [type |-> "none", attempts |-> 0]

Observe(outcome, slept) ==
    /\ outcomes' = IF trace THEN Append(outcomes, outcome) ELSE outcomes
    /\ sleeps' = IF trace /\ slept > 0 THEN Append(sleeps, slept) ELSE sleeps
    /\ count' = IF count = None THEN None ELSE Some(count[1] + 1)

Response(status) == [kind |-> "response", status |-> status]
Raised(kind) == [kind |-> kind, status |-> 0]

(***************************************************************************)
(* _execute_sparql: one action per way an iteration of the retry loop can  *)
(* go (wikidata.py:31-66), and one for leaving the loop (line 68).         *)
(***************************************************************************)
InLoop_OneMore == xpc = "loop" /\ retries <= MAX_RETRIES

InLoop == xpc = "loop" /\ retries < MAX_RETRIES

RateLimited_Free ==
    /\ InLoop
    /\ retries' = retries
    /\ Observe(Response(429), RATE_LIMIT_RETRY_SLEEP)
    /\ UNCHANGED <<xpc, results, exc, trace>>
    /\ UNCHANGED harvestVars

(* lines 40-44: HTTP 429 *)
RateLimited ==
    /\ InLoop
    /\ retries' = retries + 1
    /\ Observe(Response(429), RATE_LIMIT_RETRY_SLEEP)
    /\ UNCHANGED <<xpc, results, exc, trace>>
    /\ UNCHANGED harvestVars

BackoffWait_Flat(n) == RATE_LIMIT_RETRY_SLEEP

(* the sleep of the three back-off branches: retries is incremented first *)
BackoffWait(n) == RATE_LIMIT_RETRY_SLEEP * n

(* lines 46-51: HTTP 500/502/503/504 *)
ServerError ==
    /\ InLoop
    /\ \E status \in ServerErrorCodes :
          /\ retries' = retries + 1
          /\ Observe(Response(status), BackoffWait(retries + 1))
    /\ UNCHANGED <<xpc, results, exc, trace>>
    /\ UNCHANGED harvestVars

(* line 53: raise_for_status raises HTTPError for any other 4xx/5xx; HTTPError *)
(* is a RequestException and line 53 is inside the try, so lines 62-66 catch it *)
HttpErrorCaught(status) ==
    /\ retries' = retries + 1
    /\ Observe(Response(status), BackoffWait(retries + 1))
    /\ UNCHANGED <<xpc, results, exc, trace>>

HttpError ==
    /\ InLoop
    /\ \E status \in OtherErrorCodes : HttpErrorCaught(status)
    /\ UNCHANGED harvestVars

(* lines 53-54: a 2xx response whose body holds results.bindings *)
Success ==
    /\ InLoop
    /\ LET homogeneous == Homogeneous(all_rows)
       IN  \E raw \in RawBatches(corpus) :
              /\ Admissible(raw, all_rows, homogeneous)
              /\ results' = raw
    /\ xpc' = "returned"
    /\ Observe(Response(200), 0)
    /\ UNCHANGED <<retries, exc, trace>>
    /\ UNCHANGED harvestVars

(* line 54: a 2xx response whose JSON body lacks "results" or "bindings": *)
(* the KeyError is no RequestException and leaves the function            *)
BadEnvelope ==
    /\ InLoop
    /\ xpc' = "raised"
    /\ exc' = [type |-> "KeyError", attempts |-> 0]
    /\ Observe(Response(200), 0)
    /\ UNCHANGED <<retries, results, trace>>
    /\ UNCHANGED harvestVars

(* lines 56-60: requests.post times out *)
Timeout ==
    /\ InLoop
    /\ retries' = retries + 1
    /\ Observe(Raised("timeout"), BackoffWait(retries + 1))
    /\ UNCHANGED <<xpc, results, exc, trace>>
    /\ UNCHANGED harvestVars

(* lines 62-66: requests.post raises another RequestException *)
RequestError ==
    /\ InLoop
    /\ retries' = retries + 1
    /\ Observe(Raised("connection"), BackoffWait(retries + 1))
    /\ UNCHANGED <<xpc, results, exc, trace>>
    /\ UNCHANGED harvestVars

(* lines 31, 68: the budget is spent *)
GiveUp ==
    /\ xpc = "loop"
    /\ retries >= MAX_RETRIES
    /\ xpc' = "raised"
    /\ exc' = [type |-> "RequestException", attempts |-> MAX_RETRIES]
    /\ UNCHANGED <<retries, results, trace, outcomes, sleeps, count>>
    /\ UNCHANGED harvestVars

ExecNext ==
    \/ RateLimited
    \/ ServerError
    \/ HttpError
    \/ Success
    \/ BadEnvelope
    \/ Timeout
    \/ RequestError
    \/ GiveUp

(* _execute_sparql called on its own, with every response recorded *)
ExecInit ==
    /\ pc = "direct"
    /\ xpc = "loop"
    /\ query = [strategy |-> "notable", offset |-> 0, limit |-> BATCH_SIZE]
    /\ retries = 0
    /\ results = <<>>
    /\ exc = NoExc
    /\ offset = 0
    /\ batch_num = 0
    /\ all_rows = <<>>
    /\ sample = 1
    /\ df = NoFrame
    /\ summary = NoSummary
    /\ corpus = RawRows
    /\ given = NoCase
    /\ count = None
    /\ trace = TRUE
    /\ outcomes = <<>>
    /\ sleeps = <<>>
    /\ lastPage = NoPage
    /\ stop1 = NoStop

SpecExec == ExecInit /\ [][ExecNext]_vars

(***************************************************************************)
(* fetch_all_artworks, phase 1: the notable-works loop (lines 260-287).    *)
(***************************************************************************)
Window(strategy, off) == [strategy |-> strategy, offset |-> off, limit |-> BATCH_SIZE]

(* lines 263-268 and 112-141: a loop iteration up to the executor call *)
NotableCall ==
    /\ pc = "phase1"
    /\ xpc = "idle"
    /\ batch_num' = batch_num + 1
    /\ query' = Window("notable", offset)
    /\ xpc' = "loop"
    /\ retries' = 0
    /\ UNCHANGED <<pc, results, exc, offset, all_rows, sample, df, corpus, given, summary, count,
                   trace, outcomes, sleeps, lastPage, stop1>>

(* line 271: the loop stops when the normalised batch is empty *)
BatchEmpty(b) == b = <<>>

CapReached_Late(off) == off > NOTABLE_LIMIT

(* line 279 *)
CapReached(off) == off >= NOTABLE_LIMIT

(* line 283: the sleep that ends an iteration of the notable-works loop *)
NotableSleep == RATE_LIMIT_SLEEP

(* lines 143-169, 269-283: the executor returned; normalise and accumulate *)
NotableReturn ==
    /\ pc = "phase1"
    /\ xpc = "returned"
    /\ LET batch == Normalised[results]
       IN  IF BatchEmpty(batch)
           THEN /\ pc' = "phase2"
                /\ stop1' = [why |-> "empty", raw |-> Len(results)]
                /\ lastPage' = [ok |-> TRUE, slept |-> 0]
                /\ UNCHANGED <<all_rows, offset>>
           ELSE /\ all_rows' = all_rows \o batch
                /\ offset' = offset + BATCH_SIZE
                /\ IF CapReached(offset + BATCH_SIZE)
                   THEN /\ pc' = "phase2"
                        /\ stop1' = [why |-> "cap", raw |-> Len(results)]
                        /\ lastPage' = [ok |-> TRUE, slept |-> 0]
                   ELSE /\ pc' = "phase1"
                        /\ stop1' = stop1
                        /\ lastPage' = [ok |-> TRUE, slept |-> NotableSleep]
    /\ xpc' = "idle"
    /\ results' = <<>>
    /\ count' = IF count = None \/ pc' = "phase1" THEN count ELSE Some(0)
    /\ UNCHANGED <<query, retries, exc, batch_num, sample, df,
                   corpus, given, summary,
                   trace, outcomes, sleeps>>

NotableHandler_Reraise == "aborted"

(* where control goes when the notable-works call raises (lines 285-287) *)
NotableHandler == "phase2"

NotableExcept_Discard ==
    /\ pc = "phase1"
    /\ xpc = "raised"
    /\ pc' = NotableHandler
    /\ all_rows' = <<>>
    /\ stop1' = [why |-> "error", raw |-> 0]
    /\ lastPage' = [ok |-> FALSE, slept |-> 0]
    /\ xpc' = "idle"
    /\ exc' = NoExc
    /\ count' = IF count = None THEN count ELSE Some(0)
    /\ UNCHANGED <<query, retries, results, offset, batch_num,
                   sample, df, corpus, given, summary, trace, outcomes, sleeps>>

(* lines 285-287: any exception of the call ends the loop *)
NotableExcept ==
    /\ pc = "phase1"
    /\ xpc = "raised"
    /\ pc' = NotableHandler
    /\ stop1' = [why |-> "error", raw |-> 0]
    /\ lastPage' = [ok |-> FALSE, slept |-> 0]
    /\ xpc' = "idle"
    /\ exc' = NoExc
    /\ count' = IF count = None THEN count ELSE Some(0)
    /\ UNCHANGED <<query, retries, results, offset, batch_num, all_rows,
                   sample, df, corpus, given, summary,
                   trace, outcomes, sleeps>>

(***************************************************************************)
(* Phase 2: one page at each sample offset (lines 295-311).                *)
(***************************************************************************)
AfterSample_Again(i) == IF i + 1 > Len(sample_offsets) THEN "phase1" ELSE "phase2"

(* lines 297, 313: after the last sample offset the loop is left *)
AfterSample(i) == IF i + 1 > Len(sample_offsets) THEN "frame" ELSE "phase2"

(* lines 297-301 and 186-213 *)
MuseumCall ==
    /\ pc = "phase2"
    /\ xpc = "idle"
    /\ query' = Window("museum", sample_offsets[sample])
    /\ xpc' = "loop"
    /\ retries' = 0
    /\ UNCHANGED <<pc, results, exc, offset, batch_num, all_rows, sample, df,
                   corpus, given, summary, count,
                   trace, outcomes, sleeps, lastPage, stop1>>

(* line 307: the sleep after a sample page *)
MuseumSleep == RATE_LIMIT_SLEEP

(* lines 215-240, 302-307 *)
MuseumReturn ==
    /\ pc = "phase2"
    /\ xpc = "returned"
    /\ LET batch == Normalised[results]
       IN  all_rows' = IF batch # <<>> THEN all_rows \o batch ELSE all_rows
    /\ lastPage' = [ok |-> TRUE, slept |-> MuseumSleep]
    /\ sample' = sample + 1
    /\ pc' = AfterSample(sample)
    /\ xpc' = "idle"
    /\ results' = <<>>
    /\ UNCHANGED <<query, retries, exc, offset, batch_num, df,
                   corpus, given, summary, count,
                   trace, outcomes, sleeps, stop1>>

MuseumExcept_Break ==
    /\ pc = "phase2"
    /\ xpc = "raised"
    /\ lastPage' = [ok |-> FALSE, slept |-> 0]
    /\ pc' = "frame"
    /\ xpc' = "idle"
    /\ exc' = NoExc
    /\ UNCHANGED <<query, retries, results, offset, batch_num, all_rows, df, sample,
                   corpus, given, summary, count, trace, outcomes, sleeps, stop1>>

(* lines 309-311: the page is skipped *)
MuseumExcept ==
    /\ pc = "phase2"
    /\ xpc = "raised"
    /\ lastPage' = [ok |-> FALSE, slept |-> 0]
    /\ sample' = sample + 1
    /\ pc' = AfterSample(sample)
    /\ xpc' = "idle"
    /\ exc' = NoExc
    /\ UNCHANGED <<query, retries, results, offset, batch_num, all_rows, df,
                   corpus, given, summary, count,
                   trace, outcomes, sleeps, stop1>>

(***************************************************************************)
(* The frame and its deduplication (lines 313-351).                        *)
(***************************************************************************)
Key(r) == <<r.painter, r.painting, r.museum>>
Range(seq) == {seq[i] : i \in 1..Len(seq)}
Keys(rows) == {Key(r) : r \in rows}

Unique_DropsARow(rows) == {Range(rows) \ {r} : r \in Range(rows)}

Unique_KeepAll(rows) == {Range(rows)}

(* DataFrame.unique(subset=[painter, painting, museum]) with polars' default *)
(* keep="any", maintain_order=False: one row per key, and no guarantee of   *)
(* which row of a key, nor of the order.  The possible results, as sets.    *)
Unique(rows) ==
    {kept \in SUBSET Range(rows) :
        \A k \in Keys(Range(rows)) : Cardinality({r \in kept : Key(r) = k}) = 1}

(* lines 313-351 *)
BuildFrame ==
    /\ pc = "frame"
    /\ IF all_rows = <<>>
       THEN df' = [columns |-> Schema, rows |-> {}]
       ELSE \E kept \in Unique(all_rows) : df' = [columns |-> Schema, rows |-> kept]
    /\ pc' = "done"
    /\ UNCHANGED <<xpc, query, retries, results, exc, offset, batch_num,
                   all_rows, sample, corpus, given, summary, count,
                   trace, outcomes, sleeps, lastPage, stop1>>

Next ==
    \/ NotableCall
    \/ NotableReturn
    \/ NotableExcept
    \/ MuseumCall
    \/ MuseumReturn
    \/ MuseumExcept
    \/ BuildFrame
    \/ RateLimited
    \/ ServerError
    \/ HttpError
    \/ Success
    \/ BadEnvelope
    \/ Timeout
    \/ RequestError
    \/ GiveUp

(* lines 256-261: the state on entry to the first loop *)
Init ==
    /\ pc = "phase1"
    /\ xpc = "idle"
    /\ query = NoQuery
    /\ retries = 0
    /\ results = <<>>
    /\ exc = NoExc
    /\ offset = 0
    /\ batch_num = 0
    /\ all_rows = <<>>
    /\ sample = 1
    /\ df = NoFrame
    /\ summary = NoSummary
    /\ corpus = RawRows
    /\ given = NoCase
    /\ count = None
    /\ trace = FALSE
    /\ outcomes = <<>>
    /\ sleeps = <<>>
    /\ lastPage = NoPage
    /\ stop1 = NoStop

Spec == Init /\ [][Next]_vars

(***************************************************************************)
(* fetch_all_artworks with the HTTP requests of each strategy counted; the *)
(* remote holds one row, so that every page may be empty, non-empty or     *)
(* failing.                                                                *)
(***************************************************************************)
CountInit ==
    /\ pc = "phase1"
    /\ xpc = "idle"
    /\ query = NoQuery
    /\ retries = 0
    /\ results = <<>>
    /\ exc = NoExc
    /\ offset = 0
    /\ batch_num = 0
    /\ all_rows = <<>>
    /\ sample = 1
    /\ df = NoFrame
    /\ summary = NoSummary
    /\ corpus = {rowA}
    /\ given = NoCase
    /\ trace = FALSE
    /\ outcomes = <<>>
    /\ sleeps = <<>>
    /\ lastPage = NoPage
    /\ stop1 = NoStop
    /\ count = Some(0)

SpecCount == CountInit /\ [][Next]_vars

(***************************************************************************)
(* main() of scripts/refresh_data.py after fetch_all_artworks returned:    *)
(* the summary it prints (lines 34-57).  cache.save(df) of line 31 writes  *)
(* the frame to disk and has no part in the summary.  A percentage is kept *)
(* in tenths, as the format .1f prints it.                                 *)
(***************************************************************************)
NoData_Never(n) == FALSE

(* refresh_data.py:43 *)
NoData(n) == n = 0

(* refresh_data.py:49, 54: 100 * k / n, which raises ZeroDivisionError when n = 0 *)
Percent(k, n) == IF n = 0 THEN None ELSE Some((2000 * k + n) \div (2 * n))

NUnique(rows, column) == Cardinality({r[column] : r \in rows})

(* refresh_data.py:34-57 *)
Summarise ==
    /\ pc = "done"
    /\ summary = NoSummary
    /\ LET n == Cardinality(df.rows)
           counts == [total |-> n,
                      painters |-> NUnique(df.rows, "painter"),
                      museums |-> NUnique(df.rows, "museum")]
           with_coords == {r \in df.rows : r.lat # None /\ r.lon # None}
           with_wiki == {r \in df.rows : r.wikipedia_url # EmptyStr}
           coords_pct == Percent(Cardinality(with_coords), n)
           wiki_pct == Percent(Cardinality(with_wiki), n)
           has_wiki == \E i \in 1..Len(df.columns) : df.columns[i] = "wikipedia_url"
       IN  summary' =
             IF NoData(n)
             THEN [status |-> "no data", counts |-> counts, coverage |-> <<>>]
             ELSE IF coords_pct = None \/ (has_wiki /\ wiki_pct = None)
                  THEN [status |-> "ZeroDivisionError", counts |-> counts, coverage |-> <<>>]
                  ELSE [status |-> "done", counts |-> counts,
                        coverage |-> IF has_wiki THEN <<coords_pct[1], wiki_pct[1]>>
                                     ELSE <<coords_pct[1]>>]
    /\ UNCHANGED <<pc, xpc, query, retries, results, exc, offset, batch_num, all_rows,
                   sample, df, corpus, given, trace, outcomes, sleeps, lastPage, stop1, count>>

CliNext == Next \/ Summarise

(* refresh_data.py:26: fetch_all_artworks is entered; the remote holds a   *)
(* row with every binding, a row with labels only, and a row whose painter *)
(* label is a Q-ID                                                         *)
CliInit ==
    /\ pc = "phase1"
    /\ xpc = "idle"
    /\ query = NoQuery
    /\ retries = 0
    /\ results = <<>>
    /\ exc = NoExc
    /\ offset = 0
    /\ batch_num = 0
    /\ all_rows = <<>>
    /\ sample = 1
    /\ df = NoFrame
    /\ summary = NoSummary
    /\ corpus = {rowA, rowB2, rowQ}
    /\ given = NoCase
    /\ trace = FALSE
    /\ outcomes = <<>>
    /\ sleeps = <<>>
    /\ lastPage = NoPage
    /\ stop1 = NoStop
    /\ count = None

SpecCli == CliInit /\ [][CliNext]_vars

(***************************************************************************)
(* The normaliser on its own: fetch_notable_paintings_batch from the point *)
(* where the executor has returned one raw row (line 141), followed by the *)
(* frame.  The raw row is drawn from three families:                       *)
(*   "label"    one of the three labels is absent or any string over       *)
(*              LabelChars of at most MaxLabel characters                  *)
(*   "coords"   the geometry is two tokens laid out in one of Shapes, the  *)
(*              tokens any string over TokenChars of at most MaxTok        *)
(*              characters, or one of ExampleTokens                        *)
(*   "defaults" country, geometry and article each absent or present       *)
(***************************************************************************)
Strings(chars, lo, hi) == UNION {[1..n -> chars] : n \in lo..hi}

LabelChars == {"Q", "1", "-", "a"}
LabelKeys == {"painterLabel", "paintingLabel", "museumLabel"}
Labels == Strings(LabelChars, 0, MaxLabel)

TokenChars == {"9", "-", "."}
ExampleTokens == {<<"2", "0", "0">>, <<"9", "5">>, <<"1", ".", "2", ".", "3">>, <<"4", "8", ".", "8">>}
Tokens == Strings(TokenChars, 1, MaxTok) \cup ExampleTokens

Shapes == {"point", "trailing", "unclosed", "comma", "lower", "leading", "bare"}

Geometry(shape, lon, lat) ==
    CASE shape = "point"    -> PointPrefix \o lon \o <<" ">> \o lat \o <<")">>
      [] shape = "trailing" -> PointPrefix \o lon \o <<" ">> \o lat \o <<")", "x">>
      [] shape = "unclosed" -> PointPrefix \o lon \o <<" ">> \o lat
      [] shape = "comma"    -> PointPrefix \o lon \o <<",">> \o lat \o <<")">>
      [] shape = "lower"    -> <<"p">> \o Tail(PointPrefix) \o lon \o <<" ">> \o lat \o <<")">>
      [] shape = "leading"  -> <<" ">> \o PointPrefix \o lon \o <<" ">> \o lat \o <<")">>
      [] shape = "bare"     -> lon \o <<" ">> \o lat

Cases ==
    {[kind |-> "label", key |-> k, label |-> l] :
        k \in LabelKeys, l \in {None} \cup {Some(x) : x \in Labels}}
    \cup {[kind |-> "coords", shape |-> sh, lon |-> t1, lat |-> t2] :
        sh \in Shapes, t1 \in Tokens, t2 \in Tokens}
    \cup {[kind |-> "defaults", country |-> c, coords |-> g, article |-> a] :
        c \in {None, Some(<<"F", "R">>)},
        g \in {None, Some(EmptyStr), Some(PointParis)},
        a \in {None, Some(UrlA)}}

RowOf(case) ==
    CASE case.kind = "label"    -> [rowA EXCEPT ![case.key] = case.label]
      [] case.kind = "coords"   ->
            [rowA EXCEPT !.coords = Some(Geometry(case.shape, case.lon, case.lat))]
      [] case.kind = "defaults" ->
            [rowA EXCEPT !.countryLabel = case.country,
                         !.coords = case.coords,
                         !.article = case.article]

(* lines 143-169 and 275: the returned rows are normalised into the working set *)
Normalise ==
    /\ pc = "normalise"
    /\ all_rows' = all_rows \o Paintings(results)
    /\ pc' = "frame"
    /\ UNCHANGED <<xpc, query, retries, results, exc, offset, batch_num, sample, df,
                   summary, corpus, given, trace, outcomes, sleeps, lastPage, stop1, count>>

NormNext == Normalise \/ BuildFrame

(* line 141: the executor has returned the raw row *)
NormInit ==
    /\ pc = "normalise"
    /\ xpc = "idle"
    /\ query = Window("notable", 0)
    /\ retries = 0
    /\ \E case \in Cases :
          /\ given = case
          /\ results = <<RowOf(case)>>
          /\ corpus = {RowOf(case)}
    /\ exc = NoExc
    /\ offset = 0
    /\ batch_num = 1
    /\ all_rows = <<>>
    /\ sample = 1
    /\ df = NoFrame
    /\ summary = NoSummary
    /\ trace = FALSE
    /\ outcomes = <<>>
    /\ sleeps = <<>>
    /\ lastPage = NoPage
    /\ stop1 = NoStop
    /\ count = None

SpecNorm == NormInit /\ [][NormNext]_vars

(***************************************************************************)
(* Properties of the executor, checked under SpecExec.                     *)
(* outcomes[i] is the response to the i-th request of the call; every      *)
(* response that is retried is followed by one sleep, so sleeps[i] is the  *)
(* sleep that followed outcomes[i].                                        *)
(***************************************************************************)
Is429(o) == o.kind = "response" /\ o.status = 429
IsServerError(o) == o.kind = "response" /\ o.status \in {500, 502, 503, 504}
IsNetworkError(o) == o.kind \in {"timeout", "connection"}
IsBackedOff(o) == IsServerError(o) \/ IsNetworkError(o)
IsOther4xx(o) == o.kind = "response" /\ o.status \in (400..499) \ {429}
Count(seq, n, P(_)) == Cardinality({i \in 1..n : P(seq[i])})

(* C1: when the first response is a 4xx other than 429, the call fails at  *)
(* once: one request, no sleep, no retry.                                  *)
C1_ClientErrorFailsAtOnce ==
    (Len(outcomes) >= 1 /\ IsOther4xx(outcomes[1]))
        => /\ Len(outcomes) = 1
           /\ sleeps = <<>>
           /\ xpc = "raised"

(* C2: a call issues at most 5 requests whatever the remote answers; when  *)
(* all 5 are retryable failures the only way on is to raise the failure,   *)
(* which carries the attempt count 5.                                      *)
C2_RetryBudget ==
    /\ Len(outcomes) <= 5
    /\ (Len(outcomes) = 5 /\ \A i \in 1..5 : Is429(outcomes[i]) \/ IsBackedOff(outcomes[i]))
          => /\ xpc \in {"loop", "raised"}
             /\ xpc = "loop" => ENABLED GiveUp /\ ~InLoop
             /\ xpc = "raised" => exc = [type |-> "RequestException", attempts |-> 5]
    /\ (xpc = "raised" /\ exc.type = "RequestException")
          => exc.attempts = 5 /\ Len(outcomes) = 5

C2_Witness ==
    /\ xpc = "raised"
    /\ exc = [type |-> "RequestException", attempts |-> 5]
    /\ Len(outcomes) = 5
    /\ \E i, j, k, l \in 1..5 :
          /\ Is429(outcomes[i])
          /\ IsServerError(outcomes[j])
          /\ outcomes[k].kind = "timeout"
          /\ outcomes[l].kind = "connection"

(* C3 as stated: a 429 is followed by a 30s sleep and a retry, and the     *)
(* multiplier of a later back-off sleep counts only the attempts that were *)
(* not 429 responses.                                                      *)
C3_RateLimitNotCounted ==
    /\ Len(sleeps) = Count(outcomes, Len(outcomes), LAMBDA o : Is429(o) \/ IsBackedOff(o) \/ IsOther4xx(o))
    /\ \A i \in 1..Len(sleeps) :
          /\ Is429(outcomes[i]) => sleeps[i] = 30 /\ (i < Len(outcomes) \/ xpc = "loop")
          /\ IsBackedOff(outcomes[i]) => sleeps[i] = 30 * (i - Count(outcomes, i, Is429))

(* C3 amended: a 429 is followed by a sleep of exactly 30s, and by a retry *)
(* while fewer than 5 attempts were made; 429 responses do count toward    *)
(* the back-off: the sleep after a server error, timeout or connection     *)
(* error that answered the i-th request is 30s x i.                        *)
C3_RateLimitCounted ==
    /\ Len(sleeps) = Count(outcomes, Len(outcomes), LAMBDA o : Is429(o) \/ IsBackedOff(o) \/ IsOther4xx(o))
    /\ \A i \in 1..Len(sleeps) :
          /\ Is429(outcomes[i]) =>
                /\ sleeps[i] = 30
                /\ (i < 5 /\ i = Len(outcomes)) => InLoop
          /\ IsBackedOff(outcomes[i]) => sleeps[i] = 30 * i

C3_Witness ==
    /\ Len(outcomes) = 3
    /\ Is429(outcomes[1]) /\ Is429(outcomes[2]) /\ IsServerError(outcomes[3])
    /\ sleeps = <<30, 30, 90>>
    /\ InLoop

(* C4: in a call without 429 responses the k-th retryable failure (server  *)
(* error, timeout or connection error) is followed by a sleep of 30s x k,  *)
(* so the sleeps increase strictly; three 503 responses and then a 200     *)
(* return the 200's rows after sleeps of 30s, 60s, 90s.                    *)
C4_LinearBackoff ==
    (\A i \in 1..Len(outcomes) : ~Is429(outcomes[i])) =>
        /\ \A i \in 1..Len(sleeps) :
              IsBackedOff(outcomes[i]) => sleeps[i] = 30 * Count(outcomes, i, IsBackedOff)
        /\ \A i \in 1..Len(sleeps) - 1 : sleeps[i] < sleeps[i + 1]
        /\ (Len(outcomes) = 4 /\ outcomes[4].status = 200 /\ xpc = "returned"
              /\ \A i \in 1..3 : outcomes[i] = Response(503))
              => sleeps = <<30, 60, 90>>

(***************************************************************************)
(* Properties of fetch_all_artworks, checked under Spec.                   *)
(***************************************************************************)
AfterPhase1 == pc \in {"phase2", "frame", "done"}
IsPrefix(s, t) == Len(s) <= Len(t) /\ SubSeq(t, 1, Len(s)) = s
First(rows, k) == rows[CHOOSE i \in 1..Len(rows) :
                         Key(rows[i]) = k /\ \A j \in 1..(i - 1) : Key(rows[j]) # k]

(* C5: the notable-works loop stops for emptiness only when the raw batch  *)
(* is empty; a non-empty raw batch that the normaliser rejects in full     *)
(* does not stop it.                                                       *)
C5_RawBatchDrivesStop ==
    stop1.why = "empty" => stop1.raw = 0

(* C6: the notable-works loop requests at most 10 pages, the n-th at       *)
(* offset 200 x (n - 1) with LIMIT 200 and never at offset 2000 or more,   *)
(* and a page of 0 raw rows ends the loop at once.                         *)
C6_PaginationBounded ==
    /\ [](/\ batch_num <= 10
          /\ (pc = "phase1" /\ xpc # "idle") =>
                /\ query = [strategy |-> "notable", offset |-> 200 * (batch_num - 1), limit |-> 200]
                /\ query.offset < 2000)
    /\ [][(pc = "phase1" /\ xpc = "returned" /\ results = <<>>) => pc' = "phase2"]_vars

C6_Witness ==
    /\ pc = "phase2"
    /\ stop1.why = "cap"
    /\ batch_num = 10
    /\ query.offset = 1800

(* C7: an exception in the notable-works loop does not fail the harvest:   *)
(* the sampling loop still runs all its pages and a frame is returned;     *)
(* and no step of the sampling loop, failing or not, drops a record that   *)
(* is already in the working set.                                          *)
C7_PartialFailure ==
    /\ [](/\ pc \in {"phase1", "phase2", "frame", "done"}
          /\ stop1.why = "error" => AfterPhase1
          /\ pc = "done" =>
                /\ sample = Len(sample_offsets) + 1
                /\ df.columns = Schema
                /\ Keys(df.rows) = Keys(Range(all_rows)))
    /\ [][IsPrefix(all_rows, all_rows')]_vars

C7_Witness ==
    /\ pc = "done"
    /\ stop1.why = "error"
    /\ ~lastPage.ok
    /\ df.rows # {}

(* C8: a strategy sleeps 2s after each successful page that is followed by *)
(* another page request, and does not sleep after its final page.          *)
C8_InterRequestSleep ==
    /\ (pc = "phase1" /\ xpc = "idle" /\ batch_num > 0) => lastPage = [ok |-> TRUE, slept |-> 2]
    /\ (pc = "phase2" /\ xpc = "idle" /\ sample = 1) => lastPage.slept = 0
    /\ (pc = "phase2" /\ xpc = "idle" /\ sample > 1 /\ lastPage.ok) => lastPage.slept = 2
    /\ pc \in {"frame", "done"} => lastPage.slept = 0

(* C9: of the records of the working set that share an identity key, the   *)
(* returned frame holds the earliest, unaltered.                           *)
C9_FirstRecordWins ==
    pc = "done" => \A r \in df.rows : r = First(all_rows, Key(r))

(* C10: the returned frame holds no two records with the same (painter,    *)
(* painting, museum), and exactly one record for every identity key of the *)
(* working set.                                                            *)
C10_Uniqueness ==
    pc = "done" =>
        /\ \A r1, r2 \in df.rows : Key(r1) = Key(r2) => r1 = r2
        /\ df.rows \subseteq Range(all_rows)
        /\ \A k \in Keys(Range(all_rows)) : Cardinality({r \in df.rows : Key(r) = k}) = 1

C10_Witness ==
    /\ pc = "done"
    /\ \E i, j \in 1..Len(all_rows) :
          /\ i < j
          /\ Key(all_rows[i]) = Key(all_rows[j])
          /\ all_rows[i] # all_rows[j]
    /\ Cardinality(df.rows) = 1

(* C12: the sampling loop requests one page of LIMIT 200 at each of the    *)
(* offsets 0, 5000, 10000, 20000, 30000, 50000, in that order, and each    *)
(* exactly once: a page's call, however it ends, moves on to the next      *)
(* offset, and the loop is left only after the sixth.                      *)
C12_SampleOffsets ==
    /\ [](/\ (pc = "phase2" /\ xpc # "idle") =>
                /\ sample \in 1..6
                /\ query = [strategy |-> "museum",
                            offset |-> <<0, 5000, 10000, 20000, 30000, 50000>>[sample],
                            limit |-> 200]
          /\ (pc = "phase2" /\ xpc = "idle") => sample \in 1..6
          /\ pc \in {"frame", "done"} => sample = 7)
    /\ [][/\ sample' \in {sample, sample + 1}
          /\ (sample' = sample + 1) <=> (pc = "phase2" /\ xpc # "idle" /\ xpc' = "idle")
          /\ (pc = "phase2" /\ query' # query) => (xpc = "idle" /\ xpc' = "loop")]_vars

C12_Witness ==
    /\ pc = "phase2"
    /\ xpc = "loop"
    /\ retries = 4
    /\ sample = 6
    /\ query = [strategy |-> "museum", offset |-> 50000, limit |-> 200]

QueryFailure == xpc = "raised" /\ exc.type = "RequestException"

(* C13 as stated: in either strategy, once the executor has reported       *)
(* QueryFailure for one of the strategy's pages, the strategy requests no  *)
(* further page: the failure ends the strategy's loop.                     *)
C13_FailureEndsStrategy ==
    [][(QueryFailure /\ pc \in {"phase1", "phase2"}) => pc' # pc]_vars

(* C13 amended: a QueryFailure for a notable-works page ends the notable-  *)
(* works loop, which requests no page afterwards; a QueryFailure for a     *)
(* sample page skips that sample offset only: the working set is left as   *)
(* it is and the sampling loop goes on to the next offset, if any.         *)
C13_FailureEndsNotableOnly ==
    /\ [][/\ (QueryFailure /\ pc = "phase1") => pc' = "phase2"
          /\ AfterPhase1 => (pc' # "phase1" /\ batch_num' = batch_num)
          /\ (QueryFailure /\ pc = "phase2") =>
                /\ all_rows' = all_rows
                /\ sample' = sample + 1
                /\ pc' = IF sample < 6 THEN "phase2" ELSE "frame"]_vars
    /\ []((pc = "phase2" /\ xpc = "idle") => ENABLED MuseumCall)

C13_Witness ==
    /\ pc = "phase2"
    /\ QueryFailure
    /\ sample = 2
    /\ ~lastPage.ok
    /\ stop1.why = "error"

(* C14: the harvest is sequential.  A request is outstanding only inside   *)
(* the one executor call of the strategy in progress, and a call starts    *)
(* only when none is in progress; no sampling request is made before the   *)
(* notable-works loop has stopped (empty page, cap or failure); and the    *)
(* two strategies run once each, notable-works first.                      *)
C14_Sequential ==
    /\ [](/\ xpc # "idle" =>
                /\ pc \in {"phase1", "phase2"}
                /\ query.strategy = IF pc = "phase1" THEN "notable" ELSE "museum"
          /\ query.strategy = "museum" => stop1.why \in {"empty", "cap", "error"}
          /\ pc = "phase1" => (stop1.why = "none" /\ sample = 1 /\ query.strategy # "museum"))
    /\ [][/\ (xpc # "loop" /\ xpc' = "loop") => xpc = "idle"
          /\ pc' # pc => <<pc, pc'>> \in {<<"phase1", "phase2">>,
                                          <<"phase2", "frame">>,
                                          <<"frame", "done">>}]_vars

C14_Witness ==
    /\ pc = "phase2"
    /\ xpc = "loop"
    /\ sample = 1
    /\ query = [strategy |-> "museum", offset |-> 0, limit |-> 200]
    /\ stop1.why = "cap"
    /\ batch_num = 10

(* the orders in which the rows of a frame can be listed *)
Orders(rows) == {s \in [1..Cardinality(rows) -> rows] : Range(s) = rows}

(* C17: deduplicating the returned frame again changes nothing: whatever   *)
(* the order of its rows, the only possible result is the same set of      *)
(* records.                                                                *)
C17_DedupIdempotent ==
    (pc = "done" /\ all_rows # <<>>) =>
        \A s \in Orders(df.rows) : Unique(s) = {df.rows}

C17_Witness ==
    /\ pc = "done"
    /\ Len(all_rows) = 2
    /\ Key(all_rows[1]) = Key(all_rows[2])
    /\ all_rows[1] # all_rows[2]
    /\ df.rows = {all_rows[2]}

(* C21: when a notable-works page fails after k pages succeeded, the       *)
(* records of those k pages stay in the working set and each of their      *)
(* identity keys is in the returned frame; the failed page adds no record: *)
(* the working set is the same from the page's request to the handling of  *)
(* its failure, and it is never shortened afterwards.                      *)
C21_PartialPagesKept ==
    /\ [](/\ Len(all_rows) >= offset \div 200
          /\ pc = "done" => Keys(Range(all_rows)) \subseteq Keys(df.rows))
    /\ [][/\ (pc = "phase1" /\ xpc \in {"loop", "raised"}) => all_rows' = all_rows
          /\ (pc = "phase1" /\ xpc = "raised") => (pc' = "phase2" /\ offset' = offset)
          /\ Len(all_rows') >= Len(all_rows)
          /\ SubSeq(all_rows', 1, Len(all_rows)) = all_rows]_vars

C21_Witness ==
    /\ pc = "done"
    /\ stop1.why = "error"
    /\ batch_num = 3
    /\ offset = 400
    /\ Len(all_rows) >= 2
    /\ Key(all_rows[1]) # Key(all_rows[2])
    /\ {Key(all_rows[1]), Key(all_rows[2])} \subseteq Keys(df.rows)

(***************************************************************************)
(* Properties of the request count, checked under SpecCount.               *)
(***************************************************************************)
(* the pages requested so far, and the steps taken so far as a function of *)
(* the state: 8 per finished page, 1..7 within a page's call               *)
PagesStarted == batch_num + (sample - 1) + (IF pc = "phase2" /\ xpc # "idle" THEN 1 ELSE 0)
StepsTaken ==
    CASE xpc = "idle" -> 8 * PagesStarted + (IF pc = "done" THEN 1 ELSE 0)
      [] xpc = "loop" -> 8 * (PagesStarted - 1) + 1 + retries
      [] OTHER        -> 8 * (PagesStarted - 1) + 7

(* C20: a harvest terminates and issues at most 80 HTTP requests: at most  *)
(* 10 notable-works pages and 6 sample pages, at most 5 requests per page, *)
(* so at most 50 requests by the notable-works loop and at most 30 by the  *)
(* sampling loop.  It terminates: every step moves it forward along a      *)
(* measure that never exceeds 129, and it never stops before it is done    *)
(* (a step is enabled; after the executor returned, that is the loop's     *)
(* handling of the page, which has no further condition).                  *)
C20_RequestBudget ==
    /\ [](/\ batch_num <= 10
          /\ sample <= 7
          /\ pc = "phase1" => (count[1] <= 5 * batch_num /\ count[1] <= 50)
          /\ pc = "phase2" => (count[1] <= 5 * PagesStarted - 5 * batch_num /\ count[1] <= 30)
          /\ pc \in {"frame", "done"} => (sample = 7 /\ count[1] <= 30)
          /\ StepsTaken \in 0..129
          /\ pc # "done" =>
                \/ ENABLED NotableCall \/ ENABLED NotableExcept
                \/ ENABLED MuseumCall \/ ENABLED MuseumExcept
                \/ ENABLED RateLimited \/ ENABLED GiveUp \/ ENABLED BuildFrame
                \/ (xpc = "returned" /\ pc \in {"phase1", "phase2"}))
    /\ [][StepsTaken' > StepsTaken]_vars

C20_Witness ==
    /\ pc = "phase1"
    /\ batch_num = 10
    /\ xpc = "raised"
    /\ exc = [type |-> "RequestException", attempts |-> 5]
    /\ count = Some(50)

(***************************************************************************)
(* Properties of the command-line refresh, checked under SpecCli.          *)
(***************************************************************************)
(* C15: when no page contributed a record (every page came back empty, was *)
(* rejected in full, or failed), the harvest returns a frame of zero rows  *)
(* with the 8 columns, and the summary of it is printed to the end (here,  *)
(* to "No data fetched!") with all three counts 0 and no division by zero. *)
C15_EmptyHarvest ==
    (pc = "done" /\ all_rows = <<>>) =>
        /\ df = [columns |-> <<"painter", "painting", "museum", "city",
                               "country", "lat", "lon", "wikipedia_url">>,
                 rows |-> {}]
        /\ summary = NoSummary => ENABLED Summarise
        /\ summary # NoSummary =>
              /\ summary.status = "no data"
              /\ summary.counts = [total |-> 0, painters |-> 0, museums |-> 0]

C15_Witness ==
    /\ pc = "done"
    /\ all_rows = <<>>
    /\ stop1 = [why |-> "empty", raw |-> 1]
    /\ ~lastPage.ok
    /\ df.rows = {}
    /\ summary.status = "no data"

(***************************************************************************)
(* Properties of the normaliser, checked under SpecNorm.                   *)
(***************************************************************************)
AfterNormalise == pc \in {"frame", "done"}
GivenLabel == IF given.label = None THEN EmptyStr ELSE given.label[1]
Rejected == all_rows = <<>>

(* the reference pattern ^Q[0-9-]+$ *)
PlaceholderPattern(label) ==
    /\ Len(label) >= 2
    /\ label[1] = "Q"
    /\ \A i \in 2..Len(label) : label[i] \in Digits \cup {"-"}

C16_ParseCoordinates ==
    AfterNormalise =>
        /\ given.kind = "coords" =>
              /\ Len(all_rows) = 1
              /\ IF given.shape = "point" /\ IsFloat(given.lon) /\ IsFloat(given.lat)
                 THEN /\ all_rows[1].lat = Some(FloatValue(given.lat))
                      /\ all_rows[1].lon = Some(FloatValue(given.lon))
                 ELSE /\ all_rows[1].lat = None
                      /\ all_rows[1].lon = None
        /\ (given.kind = "defaults" /\ given.coords \in {None, Some(EmptyStr)}) =>
              /\ Len(all_rows) = 1
              /\ all_rows[1].lat = None
              /\ all_rows[1].lon = None

(* C18: every record that enters the working set has the 8 fields; city   *)
(* is "Unknown"; country is the country binding, "Unknown" when absent;    *)
(* wikipedia_url is the article binding, the empty string when absent.     *)
(* (wikipedia_url is a string and lat/lon are optional values, so the      *)
(* empty string is not a null.)                                            *)
C18_SchemaDefaults ==
    AfterNormalise =>
        /\ \A i \in 1..Len(all_rows) :
              /\ DOMAIN all_rows[i] = {"painter", "painting", "museum", "city",
                                       "country", "lat", "lon", "wikipedia_url"}
              /\ all_rows[i].city = <<"U", "n", "k", "n", "o", "w", "n">>
        /\ given.kind = "defaults" =>
              /\ Len(all_rows) = 1
              /\ all_rows[1].country = IF given.country = None
                                       THEN <<"U", "n", "k", "n", "o", "w", "n">>
                                       ELSE given.country[1]
              /\ all_rows[1].wikipedia_url = IF given.article = None
                                             THEN <<>>
                                             ELSE given.article[1]

C18_Witness ==
    /\ AfterNormalise
    /\ given.kind = "defaults"
    /\ given.country = None
    /\ given.article = None
    /\ given.coords = None
    /\ all_rows = <<[painter |-> <<"a">>, painting |-> <<"x">>, museum |-> <<"m">>,
                     city |-> Unknown, country |-> Unknown,
                     lat |-> None, lon |-> None, wikipedia_url |-> EmptyStr]>>

(* C19: every record of the returned frame that has coordinates has its    *)
(* latitude in [-90, 90] and its longitude in [-180, 180], whatever the    *)
(* geometry string of the raw row.                                         *)
C19_CoordinateRange ==
    pc = "done" =>
        \A r \in df.rows :
            /\ r.lat # None => (r.lat[1] >= (0 - 90) * Scale /\ r.lat[1] <= 90 * Scale)
            /\ r.lon # None => (r.lon[1] >= (0 - 180) * Scale /\ r.lon[1] <= 180 * Scale)

(* C22: in every record the normaliser produces, and in every record of    *)
(* the returned frame, lat is present exactly when lon is present.         *)
C22_CoordinatesPaired ==
    /\ \A i \in 1..Len(all_rows) : (all_rows[i].lat = None) <=> (all_rows[i].lon = None)
    /\ \A r \in df.rows : (r.lat = None) <=> (r.lon = None)

C22_Witness ==
    /\ pc = "done"
    /\ given.kind = "coords"
    /\ given.shape = "point"
    /\ given.lon = <<"9", ".", "9">>
    /\ given.lat = <<"9", ".", ".">>
    /\ \E r \in df.rows : r.lat = None /\ r.lon = None

====
